---- MODULE Spec2Model ----
(***************************************************************************)
(* Simulation core of Dodge Rush (src/src/main.rs): the game-state machine *)
(* update_game, the obstacle and power-up pools, the score accumulator and *)
(* the fixed-timestep loop of main.                                        *)
(*                                                                         *)
(* Number representation.  The program computes in f32; the model uses     *)
(* integers on fixed grids:                                                *)
(*   - times (dt, timers, get_time)      : units of 1/6000 s  (Secs)       *)
(*   - positions and sizes               : units of 1/120 px  (Px)         *)
(*   - velocities                        : px/s                            *)
(*   - shake magnitude                   : hundredths         (Shk)        *)
(*   - the score accumulator time_tick   : f32 itself, as a multiple of    *)
(*     2^-30 s with IEEE round-to-nearest-even after each operation        *)
(*     (F32Round), because the accumulator's result depends on rounding.   *)
(***************************************************************************)
EXTENDS Integers, Naturals, Sequences, FiniteSets, TLC

\* ---------------------------------------------------------------- units
Px(n) == n * 120
Secs(num, den) == (num * 6000) \div den
Shk(n) == n * 100

Max(a, b) == IF a >= b THEN a ELSE b
Min(a, b) == IF a <= b THEN a ELSE b
Clamp(v, lo, hi) == IF v < lo THEN lo ELSE IF v > hi THEN hi ELSE v
Abs(v) == IF v < 0 THEN 0 - v ELSE v

\* v [px/s] * dt [1/6000 s] in position units (exact for dt = FIXED_DT)
Advance(v, dt) == IF v >= 0 THEN (v * dt) \div 50 ELSE 0 - ((Abs(v) * dt) \div 50)

\* ---------------------------------------------------------------- constants
PLAYER_W == 80
PLAYER_H == 18
PLAYER_Y == 560
PLAYER_SPEED_MAX == 520
PLAYER_ACC == 2400
OB_MIN_SIZE == 22
OB_MAX_SIZE == 60
OB_START_SPEED == 140
OB_ACC_PER_SEC == 18
SPAWN_BASE_INTERVAL == Secs(9, 10)
SPAWN_MIN_INTERVAL == Secs(25, 100)
FIXED_DT == Secs(1, 120)
PU_SPAWN_INTERVAL == Secs(6, 1)
PU_FALL_SPEED == 120
PU_SIZE == 28
SLOW_DURATION == Secs(6, 1)
\* SLOW_FACTOR = 0.5, in hundredths
SLOW_FACTOR == 50
\* scoring period 0.4 s (the literal of lines 291-292)
SCORE_PERIOD == Secs(4, 10)

Modes == {"Menu", "Playing", "Paused", "GameOver"}
Kinds == {"Shield", "Slow", "Bomb"}
ActionKeys == {"Space", "P", "R", "Escape"}
DirKeys == {"Left", "Right"}

\* ---------------------------------------------------------------- f32
\* f32 values below 2.0 as integer multiples of 2^-30.
Pow2(n) == IF n = 24 THEN 16777216 ELSE IF n = 25 THEN 33554432
           ELSE IF n = 26 THEN 67108864 ELSE IF n = 27 THEN 134217728
           ELSE IF n = 28 THEN 268435456 ELSE IF n = 29 THEN 536870912
           ELSE 1073741824

\* exponent e with 2^e <= v < 2^(e+1), for 2^24 <= v < 2^31
Exp2(v) == CHOOSE e \in 24..30 : Pow2(e) <= v /\ (e = 30 \/ v < Pow2(e + 1))

\* round-to-nearest, ties-to-even, to a 24-bit significand
F32Round(v) ==
    IF v < Pow2(24) THEN v
    ELSE LET ulp == Pow2(Exp2(v)) \div 8388608
             q == v \div ulp
             r == v % ulp
         IN  IF 2 * r < ulp THEN q * ulp
             ELSE IF 2 * r > ulp THEN (q + 1) * ulp
             ELSE IF q % 2 = 0 THEN q * ulp ELSE (q + 1) * ulp

\* the f32 nearest to a time given on the 1/6000 s grid (the dt values in use)
F32OfSecs(t) ==
    CASE t = Secs(1, 120) -> 8947849
      [] t = Secs(1, 60) -> 17895698
      [] t = Secs(1, 10) -> 107374184
      [] t = Secs(2, 10) -> 214748368
      [] t = Secs(4, 10) -> 429496736
      [] t = Secs(5, 10) -> 536870912
      [] t = Secs(1, 1) -> 1073741824
      [] t = 0 -> 0

\* ---------------------------------------------------------------- geometry
Rect(x, y, w, h) == [x |-> x, y |-> y, w |-> w, h |-> h]

rects_overlap(a, b) ==
    /\ a.x < b.x + b.w
    /\ a.x + a.w > b.x
    /\ a.y < b.y + b.h
    /\ a.y + a.h > b.y

input_axis(down) ==
    (IF "Left" \in down THEN 0 - 1 ELSE 0) + (IF "Right" \in down THEN 1 ELSE 0)

\* Vec::swap_remove(i): element i is replaced by the last element (1-based)
SwapRemove(s, i) ==
    IF i = Len(s) THEN SubSeq(s, 1, Len(s) - 1)
    ELSE [k \in 1..(Len(s) - 1) |-> IF k = i THEN s[Len(s)] ELSE s[k]]

Reverse(s) == [k \in 1..Len(s) |-> s[Len(s) + 1 - k]]

\* ---------------------------------------------------------------- pools
\* Objects carry an identity `id` (the allocation they live in); it is not a
\* field of the program's structs and is never read by the operations.
Obstacle(id, rect, vy) == [id |-> id, rect |-> rect, vy |-> vy]
PowerUp(id, rect, vy, kind) == [id |-> id, rect |-> rect, vy |-> vy, kind |-> kind]

PoolNew == [live |-> << >>, dead |-> << >>, made |-> 0]

\* faulty variant: spawn that never reuses a recycled object
ObsSpawn_AlwaysNew(pool, rect, vy) ==
    [pool EXCEPT !.live = Append(pool.live, Obstacle(pool.made + 1, rect, vy)),
                 !.made = pool.made + 1]

\* ObstaclePool::spawn
ObsSpawn(pool, rect, vy) ==
    IF Len(pool.dead) > 0
    THEN LET o == pool.dead[Len(pool.dead)]
         IN  [pool EXCEPT !.dead = SubSeq(pool.dead, 1, Len(pool.dead) - 1),
                          !.live = Append(pool.live, [o EXCEPT !.rect = rect, !.vy = vy])]
    ELSE [pool EXCEPT !.live = Append(pool.live, Obstacle(pool.made + 1, rect, vy)),
                      !.made = pool.made + 1]

\* the while loop of update_and_sweep, from index i (1-based)
RECURSIVE ObsSweepFrom(_, _, _, _)
ObsSweepFrom(pool, i, screen_h, dt) ==
    IF i > Len(pool.live) THEN pool
    ELSE LET o == [pool.live[i] EXCEPT !.rect.y = @ + Advance(pool.live[i].vy, dt)]
             moved == [pool.live EXCEPT ![i] = o]
         IN  IF o.rect.y > screen_h + Px(5)
             THEN ObsSweepFrom([pool EXCEPT !.live = SwapRemove(moved, i),
                                            !.dead = Append(pool.dead, o)],
                               i, screen_h, dt)
             ELSE ObsSweepFrom([pool EXCEPT !.live = moved], i + 1, screen_h, dt)

\* faulty variant: the index moves on after a swap_remove, so the element
\* swapped into the slot is skipped
RECURSIVE ObsSweepSkipping(_, _, _, _)
ObsSweepSkipping(pool, i, screen_h, dt) ==
    IF i > Len(pool.live) THEN pool
    ELSE LET o == [pool.live[i] EXCEPT !.rect.y = @ + Advance(pool.live[i].vy, dt)]
             moved == [pool.live EXCEPT ![i] = o]
         IN  IF o.rect.y > screen_h + Px(5)
             THEN ObsSweepSkipping([pool EXCEPT !.live = SwapRemove(moved, i),
                                                !.dead = Append(pool.dead, o)],
                                   i + 1, screen_h, dt)
             ELSE ObsSweepSkipping([pool EXCEPT !.live = moved], i + 1, screen_h, dt)

ObsUpdateAndSweep_SkipsSwapped(pool, screen_h, dt) == ObsSweepSkipping(pool, 1, screen_h, dt)

\* ObstaclePool::update_and_sweep
ObsUpdateAndSweep(pool, screen_h, dt) == ObsSweepFrom(pool, 1, screen_h, dt)

\* faulty variant: clear_all that drops the live objects instead of recycling them
ObsClearAll_Drop(pool) == [pool EXCEPT !.live = << >>]

\* ObstaclePool::clear_all: pop from the back of live, push onto dead
ObsClearAll(pool) ==
    [pool EXCEPT !.live = << >>, !.dead = pool.dead \o Reverse(pool.live)]

\* PowerUpPool::spawn
PusSpawn(pool, x, y, kind) ==
    LET r == Rect(x, y, Px(PU_SIZE), Px(PU_SIZE))
    IN  IF Len(pool.dead) > 0
        THEN LET p == pool.dead[Len(pool.dead)]
             IN  [pool EXCEPT !.dead = SubSeq(pool.dead, 1, Len(pool.dead) - 1),
                              !.live = Append(pool.live,
                                  [p EXCEPT !.rect = r, !.vy = PU_FALL_SPEED, !.kind = kind])]
        ELSE [pool EXCEPT !.live = Append(pool.live,
                                      PowerUp(pool.made + 1, r, PU_FALL_SPEED, kind)),
                          !.made = pool.made + 1]

RECURSIVE PusSweepFrom(_, _, _, _)
PusSweepFrom(pool, i, screen_h, dt) ==
    IF i > Len(pool.live) THEN pool
    ELSE LET p == [pool.live[i] EXCEPT !.rect.y = @ + Advance(pool.live[i].vy, dt)]
             moved == [pool.live EXCEPT ![i] = p]
         IN  IF p.rect.y > screen_h + Px(5)
             THEN PusSweepFrom([pool EXCEPT !.live = SwapRemove(moved, i),
                                            !.dead = Append(pool.dead, p)],
                               i, screen_h, dt)
             ELSE PusSweepFrom([pool EXCEPT !.live = moved], i + 1, screen_h, dt)

\* PowerUpPool::update_and_sweep
PusUpdateAndSweep(pool, screen_h, dt) == PusSweepFrom(pool, 1, screen_h, dt)

\* index of the first element of s (from index i) whose rect overlaps r, or 0
RECURSIVE FirstOverlap(_, _, _)
FirstOverlap(s, r, i) ==
    IF i > Len(s) THEN 0
    ELSE IF rects_overlap(s[i].rect, r) THEN i
    ELSE FirstOverlap(s, r, i + 1)

\* faulty variant: the scan without the early return: every overlapping
\* power-up is recycled, the kind of the first is returned
RECURSIVE PickAllFrom(_, _, _)
PickAllFrom(pool, player, i) ==
    IF i > Len(pool.live) THEN pool
    ELSE IF rects_overlap(pool.live[i].rect, player)
         THEN PickAllFrom([pool EXCEPT !.live = SwapRemove(pool.live, i),
                                       !.dead = Append(pool.dead, pool.live[i])],
                          player, i)
         ELSE PickAllFrom(pool, player, i + 1)

PickAt_All(pool, player) ==
    LET i == FirstOverlap(pool.live, player, 1)
    IN  IF i = 0 THEN [pool |-> pool, kind |-> "None"]
        ELSE [pool |-> PickAllFrom(pool, player, 1), kind |-> pool.live[i].kind]

\* PowerUpPool::pick_at: [pool, kind], kind = "None" when nothing overlaps
PickAt(pool, player) ==
    LET i == FirstOverlap(pool.live, player, 1)
    IN  IF i = 0 THEN [pool |-> pool, kind |-> "None"]
        ELSE [pool |-> [pool EXCEPT !.live = SwapRemove(pool.live, i),
                                    !.dead = Append(pool.dead, pool.live[i])],
              kind |-> pool.live[i].kind]

\* ---------------------------------------------------------------- game
\* Game::new(best), followed by main's line 460 (player centred).  `played` is
\* not a field of the struct: it is the Playing time simulated since the last
\* reset_round, on the 1/6000 s grid, kept for the properties.
GameNew(best, screen_w) ==
    [mode |-> "Menu",
     player |-> [x |-> Px(screen_w) \div 2 - Px(PLAYER_W) \div 2, vx |-> 0],
     obs |-> PoolNew, pus |-> PoolNew,
     time_tick |-> 0, score |-> 0, best_score |-> best,
     spawn_timer |-> 0, spawn_interval |-> SPAWN_BASE_INTERVAL,
     fall_speed |-> OB_START_SPEED, shake |-> 0,
     shield |-> 0, slow_timer |-> 0, pu_spawn_timer |-> 0,
     played |-> 0]

\* faulty variant: a reset that leaves the power-up effects of the last round
reset_round_KeepsEffects(g, screen_w) ==
    [g EXCEPT !.player = [x |-> Px(screen_w) \div 2 - Px(PLAYER_W) \div 2, vx |-> 0],
              !.obs = PoolNew, !.pus = PoolNew,
              !.time_tick = 0, !.score = 0,
              !.spawn_timer = 0, !.spawn_interval = SPAWN_BASE_INTERVAL,
              !.fall_speed = OB_START_SPEED, !.shake = 0,
              !.pu_spawn_timer = 0,
              !.mode = "Playing", !.played = 0]

\* Game::reset_round
reset_round(g, screen_w) ==
    [g EXCEPT !.player = [x |-> Px(screen_w) \div 2 - Px(PLAYER_W) \div 2, vx |-> 0],
              !.obs = PoolNew, !.pus = PoolNew,
              !.time_tick = 0, !.score = 0,
              !.spawn_timer = 0, !.spawn_interval = SPAWN_BASE_INTERVAL,
              !.fall_speed = OB_START_SPEED, !.shake = 0,
              !.shield = 0, !.slow_timer = 0, !.pu_spawn_timer = 0,
              !.mode = "Playing", !.played = 0]

\* difficulty_curve(elapsed, fall_base, spawn_base) -> (fall, spawn)
difficulty_curve(elapsed, fall_base, spawn_base) ==
    [fall |-> fall_base + (elapsed * OB_ACC_PER_SEC) \div 6000,
     spawn |-> Max(spawn_base - (elapsed * 2) \div 100, SPAWN_MIN_INTERVAL)]

\* (1.0 - PLAYER_DECAY).powf(dt * 1000.0) in units of 1e-5:
\* 0.9992^(1000/120) = 0.99335 at dt = FIXED_DT, linear in dt around it
PowDecay(dt) == 100000 - (665 * dt) \div FIXED_DT

\* lines 290-294: the score accumulator, in f32 (multiples of 2^-30 s)
RECURSIVE ScoreLoop(_, _)
ScoreLoop(tt, score) ==
    IF tt >= F32OfSecs(SCORE_PERIOD)
    THEN ScoreLoop(F32Round(tt - F32OfSecs(SCORE_PERIOD)), score + 1)
    ELSE [time_tick |-> tt, score |-> score]

ScoreStep(time_tick, score, dt) == ScoreLoop(F32Round(time_tick + F32OfSecs(dt)), score)

\* number of elements of s whose rect overlaps r
RECURSIVE CountOverlap(_, _, _)
CountOverlap(s, r, i) ==
    IF i > Len(s) THEN 0
    ELSE (IF rects_overlap(s[i].rect, r) THEN 1 ELSE 0) + CountOverlap(s, r, i + 1)

\* what a tick records about itself for the properties below: the state it
\* started from and the values at the pickup and collision steps
EvNone ==
    [ran |-> FALSE, dt |-> 0, pre |-> << >>, picked |-> "None",
     q_pus |-> PoolNew, p_obs |-> PoolNew,
     p_live |-> 0, p_dead |-> 0, p_shake |-> 0,
     b_live |-> 0, b_dead |-> 0, b_shake |-> 0,
     hits |-> 0, hit_id |-> 0, c_shield |-> 0, c_score |-> 0, c_obs |-> << >>,
     x_mode |-> "None", ob_spawned |-> FALSE, pu_spawned |-> FALSE,
     saves |-> << >>]

\* lines 237-245: acceleration, decay, speed limit, position clamp
MovePlayer(player, down, dt, screen_w) ==
    LET dir == input_axis(down)
        vx1 == IF Abs(dir) > 0
               THEN player.vx + dir * ((PLAYER_ACC * dt) \div 6000)
               ELSE IF player.vx >= 0
                    THEN (player.vx * PowDecay(dt)) \div 100000
                    ELSE 0 - ((Abs(player.vx) * PowDecay(dt)) \div 100000)
        vx2 == Clamp(vx1, 0 - PLAYER_SPEED_MAX, PLAYER_SPEED_MAX)
    IN  [x |-> Clamp(player.x + Advance(vx2, dt), 0, Px(screen_w) - Px(PLAYER_W)),
         vx |-> vx2]

\* lines 248-250
SlowDecay(slow_timer, dt) ==
    IF slow_timer > 0 THEN Max(slow_timer - dt, 0) ELSE slow_timer

\* line 251, in hundredths
SlowMul(slow_timer) == IF slow_timer > 0 THEN SLOW_FACTOR ELSE 100

\* lines 254-257: [fall_speed, spawn_interval] of this tick
Difficulty(spawn_interval, elapsed, slow_mul) ==
    LET dc == difficulty_curve(elapsed, OB_START_SPEED, spawn_interval)
    IN  [fall_speed |-> (dc.fall * slow_mul) \div 100,
         spawn_interval |-> Max((dc.spawn * 100) \div slow_mul, SPAWN_MIN_INTERVAL)]

\* line 261
ObDue(g, dt, elapsed) ==
    g.spawn_timer + dt >=
        Difficulty(g.spawn_interval, elapsed, SlowMul(SlowDecay(g.slow_timer, dt))).spawn_interval

\* line 272
PuDue(g, dt) == g.pu_spawn_timer + dt >= PU_SPAWN_INTERVAL

\* lines 263-267: rnd.size in px in [OB_MIN_SIZE, OB_MAX_SIZE), rnd.ox in
\* hundredths of the range [0, screen_width - size), rnd.fac in hundredths
SpawnObstacle(obs, fall_speed, screen_w, rnd) ==
    LET size == rnd.size
        x == (Px(screen_w - size) * rnd.ox) \div 100
        y == Px(0 - size - 10)
        vy == (fall_speed * rnd.fac) \div 100
    IN  ObsSpawn(obs, Rect(x, y, Px(size), Px(size)), vy)

\* lines 274-282: rnd.roll is gen_range(0.0, 1.0) < 0.30
SpawnPowerUp(pus, screen_w, rnd) ==
    IF rnd.roll
    THEN LET x == Px(PU_SIZE) + (Px(screen_w - 2 * PU_SIZE) * rnd.px) \div 100
         IN  PusSpawn(pus, x, Px(0 - PU_SIZE - 8), rnd.kind)
    ELSE pus

\* faulty variant: the Shield effect without the cap
ApplyPickup_NoCap(kind, st) ==
    CASE kind = "Shield" -> [st EXCEPT !.shield = st.shield + 1]
      [] kind = "Slow" -> [st EXCEPT !.slow_timer = SLOW_DURATION]
      [] kind = "Bomb" -> [st EXCEPT !.obs = ObsClearAll(st.obs), !.shake = Shk(6)]
      [] OTHER -> st

\* lines 298-304: the effect of the kind returned by pick_at
ApplyPickup(kind, st) ==
    CASE kind = "Shield" -> [st EXCEPT !.shield = Min(st.shield + 1, 3)]
      [] kind = "Slow" -> [st EXCEPT !.slow_timer = SLOW_DURATION]
      [] kind = "Bomb" -> [st EXCEPT !.obs = ObsClearAll(st.obs), !.shake = Shk(6)]
      [] OTHER -> st

\* lines 307-308
HitBox(x) == Rect(x + Px(6), Px(PLAYER_Y), Px(PLAYER_W) - Px(12), Px(PLAYER_H))

\* index of the last element of s whose rect overlaps r, or 0
RECURSIVE LastOverlap(_, _, _)
LastOverlap(s, r, i) ==
    IF i < 1 THEN 0
    ELSE IF rects_overlap(s[i].rect, r) THEN i
    ELSE LastOverlap(s, r, i - 1)

\* faulty variant: the scan without the break: the last overlapping obstacle is resolved
Collide_LastOverlap(st) ==
    LET i == LastOverlap(st.obs.live, HitBox(st.player.x), Len(st.obs.live))
    IN  IF i = 0 THEN st
        ELSE IF st.shield > 0
        THEN [st EXCEPT !.obs.live = SwapRemove(st.obs.live, i),
                        !.obs.dead = Append(st.obs.dead, st.obs.live[i]),
                        !.shield = st.shield - 1,
                        !.shake = Max(st.shake, Shk(4))]
        ELSE [st EXCEPT !.best_score = Max(st.best_score, st.score),
                        !.saves = Append(st.saves, Max(st.best_score, st.score)),
                        !.mode = "GameOver",
                        !.shake = Shk(10)]

\* faulty variant: the last shield charge does not absorb
Collide_LastChargeFails(st) ==
    LET i == FirstOverlap(st.obs.live, HitBox(st.player.x), 1)
    IN  IF i = 0 THEN st
        ELSE IF st.shield > 1
        THEN [st EXCEPT !.obs.live = SwapRemove(st.obs.live, i),
                        !.obs.dead = Append(st.obs.dead, st.obs.live[i]),
                        !.shield = st.shield - 1,
                        !.shake = Max(st.shake, Shk(4))]
        ELSE [st EXCEPT !.best_score = Max(st.best_score, st.score),
                        !.saves = Append(st.saves, Max(st.best_score, st.score)),
                        !.mode = "GameOver",
                        !.shake = Shk(10)]

\* faulty variant: the best score is overwritten with the round's score
Collide_BestIsScore(st) ==
    LET i == FirstOverlap(st.obs.live, HitBox(st.player.x), 1)
    IN  IF i = 0 THEN st
        ELSE IF st.shield > 0
        THEN [st EXCEPT !.obs.live = SwapRemove(st.obs.live, i),
                        !.obs.dead = Append(st.obs.dead, st.obs.live[i]),
                        !.shield = st.shield - 1,
                        !.shake = Max(st.shake, Shk(4))]
        ELSE [st EXCEPT !.best_score = st.score,
                        !.saves = Append(st.saves, st.score),
                        !.mode = "GameOver",
                        !.shake = Shk(10)]

\* lines 310-328: first overlapping obstacle, shield absorption or game over
Collide(st) ==
    LET i == FirstOverlap(st.obs.live, HitBox(st.player.x), 1)
    IN  IF i = 0 THEN st
        ELSE IF st.shield > 0
        THEN [st EXCEPT !.obs.live = SwapRemove(st.obs.live, i),
                        !.obs.dead = Append(st.obs.dead, st.obs.live[i]),
                        !.shield = st.shield - 1,
                        !.shake = Max(st.shake, Shk(4))]
        ELSE [st EXCEPT !.best_score = Max(st.best_score, st.score),
                        !.saves = Append(st.saves, Max(st.best_score, st.score)),
                        !.mode = "GameOver",
                        !.shake = Shk(10)]

\* faulty variant: the collision test runs before the pickup is applied
Resolve_CollideFirst(kind, st) ==
    [at_test |-> st, out |-> ApplyPickup(kind, Collide(st))]

\* lines 298-328: the pickup's effect, then the collision test on its result
Resolve(kind, st) ==
    [at_test |-> ApplyPickup(kind, st), out |-> Collide(ApplyPickup(kind, st))]

\* line 330
PausePress(mode, keys) == IF "P" \in keys THEN "Paused" ELSE mode

\* faulty variant: a decay that halves the shake
ShakeDecay_Halves(shake, dt) == shake \div 2

\* lines 344-346
ShakeDecay(shake, dt) ==
    IF shake > 0 THEN Max(shake - (60 * dt * 100) \div 6000, 0) ELSE shake

\* lines 235-331: the Playing arm of update_game
Playing(g, dt, keys, down, scr, elapsed, rnd) ==
    LET player1 == MovePlayer(g.player, down, dt, scr.w)
        slow1 == SlowDecay(g.slow_timer, dt)
        df == Difficulty(g.spawn_interval, elapsed, SlowMul(slow1))
        obDue == g.spawn_timer + dt >= df.spawn_interval
        obs1 == IF obDue THEN SpawnObstacle(g.obs, df.fall_speed, scr.w, rnd) ELSE g.obs
        puDue == g.pu_spawn_timer + dt >= PU_SPAWN_INTERVAL
        pus1 == IF puDue THEN SpawnPowerUp(g.pus, scr.w, rnd) ELSE g.pus
        obs2 == ObsUpdateAndSweep(obs1, Px(scr.h), dt)
        pus2 == PusUpdateAndSweep(pus1, Px(scr.h), dt)
        sc == ScoreStep(g.time_tick, g.score, dt)
        pk == PickAt(pus2, Rect(player1.x, Px(PLAYER_Y), Px(PLAYER_W), Px(PLAYER_H)))
        st0 == [player |-> player1, obs |-> obs2, shield |-> g.shield,
                slow_timer |-> slow1, shake |-> g.shake, score |-> sc.score,
                best_score |-> g.best_score, mode |-> g.mode, saves |-> << >>]
        rs == Resolve(pk.kind, st0)
        st1 == rs.at_test
        st2 == rs.out
        ci == FirstOverlap(st1.obs.live, HitBox(player1.x), 1)
    IN  [game |->
            [mode |-> PausePress(st2.mode, keys),
             player |-> player1, obs |-> st2.obs, pus |-> pk.pool,
             time_tick |-> sc.time_tick, score |-> sc.score,
             best_score |-> st2.best_score,
             spawn_timer |-> IF obDue THEN 0 ELSE g.spawn_timer + dt,
             spawn_interval |-> df.spawn_interval,
             fall_speed |-> df.fall_speed, shake |-> st2.shake,
             shield |-> st2.shield, slow_timer |-> st2.slow_timer,
             pu_spawn_timer |-> IF puDue THEN 0 ELSE g.pu_spawn_timer + dt,
             played |-> g.played + dt],
         ev |->
            [ran |-> TRUE, dt |-> dt, pre |-> g, picked |-> pk.kind,
             q_pus |-> pus2, p_obs |-> obs2,
             p_live |-> Len(obs2.live), p_dead |-> Len(obs2.dead), p_shake |-> g.shake,
             b_live |-> Len(st1.obs.live), b_dead |-> Len(st1.obs.dead),
             b_shake |-> st1.shake,
             hits |-> CountOverlap(st1.obs.live, HitBox(player1.x), 1),
             hit_id |-> IF ci = 0 THEN 0 ELSE st1.obs.live[ci].id,
             c_shield |-> st1.shield, c_score |-> st1.score, c_obs |-> st1.obs,
             x_mode |-> st2.mode, ob_spawned |-> obDue,
             pu_spawned |-> puDue /\ rnd.roll,
             saves |-> st2.saves]]

\* line 233
MenuArm(g, keys, scr) == IF "Space" \in keys THEN reset_round(g, scr.w) ELSE g

\* lines 333-335: three independent ifs, in this order
PausedArm(g, keys, scr) ==
    LET g1 == IF "P" \in keys THEN [g EXCEPT !.mode = "Playing"] ELSE g
        g2 == IF "R" \in keys THEN reset_round(g1, scr.w) ELSE g1
    IN  IF "Escape" \in keys THEN [g2 EXCEPT !.mode = "Menu"] ELSE g2

\* faulty variant: the pause key resumes a lost round
GameOverArm_PauseResumes(g, keys, scr) ==
    LET g0 == IF "P" \in keys THEN [g EXCEPT !.mode = "Playing"] ELSE g
        g1 == IF "R" \in keys THEN reset_round(g0, scr.w) ELSE g0
    IN  IF "Escape" \in keys THEN [g1 EXCEPT !.mode = "Menu"] ELSE g1

\* lines 338-339
GameOverArm(g, keys, scr) ==
    LET g1 == IF "R" \in keys THEN reset_round(g, scr.w) ELSE g
    IN  IF "Escape" \in keys THEN [g1 EXCEPT !.mode = "Menu"] ELSE g1

\* update_game: the match on the mode the tick starts in, then the shake decay
update_game(g, dt, keys, down, scr, elapsed, rnd) ==
    LET r == CASE g.mode = "Menu" ->
                    [game |-> MenuArm(g, keys, scr),
                     ev |-> [EvNone EXCEPT !.ran = TRUE, !.pre = g]]
               [] g.mode = "Playing" -> Playing(g, dt, keys, down, scr, elapsed, rnd)
               [] g.mode = "Paused" ->
                    [game |-> PausedArm(g, keys, scr),
                     ev |-> [EvNone EXCEPT !.ran = TRUE, !.pre = g]]
               [] g.mode = "GameOver" ->
                    [game |-> GameOverArm(g, keys, scr),
                     ev |-> [EvNone EXCEPT !.ran = TRUE, !.pre = g]]
    IN  [r EXCEPT !.game.shake = ShakeDecay(r.game.shake, dt), !.ev.dt = dt]

\* ---------------------------------------------------------------- state
VARIABLES
    game,     \* the Game struct
    acc,      \* main's accumulator (line 462)
    pc,       \* main's loop: "frame" before get_frame_time, "loop" inside the while
    keys,     \* the action keys is_key_pressed reports during this frame
    down,     \* the direction keys is_key_down reports during this frame
    screen,   \* screen_width() / screen_height(), in px
    now,      \* macroquad::time::get_time()
    disk,     \* the best score stored in save.json
    ev,       \* the record of the last tick (EvNone before the frame's first tick)
    frame,    \* this frame: the mode it started in, the ticks run in it so far;
              \* since the start: the ticks run, the frame time added to acc
    frames    \* rendered frames so far

vars == <<game, acc, pc, keys, down, screen, now, disk, ev, frame, frames>>

\* ---------------------------------------------------------------- bounds
MaxFrames == 1
MaxScoreTicks == 144

\* frame times returned by get_frame_time: 0.6, 1 and 2 fixed ticks
FrameTimes == {30, FIXED_DT, 2 * FIXED_DT}
\* window sizes: the configured one (window_conf) and a narrower one (widths
\* below PLAYER_W, where the clamp of line 245 panics, are left out)
Screens == {[w |-> 800, h |-> 600], [w |-> 400, h |-> 600]}
\* the values drawn by rand::gen_range when an obstacle is spawned
ObDraws == {[size |-> OB_MIN_SIZE, ox |-> 0, fac |-> 90],
            [size |-> OB_MAX_SIZE - 1, ox |-> 50, fac |-> 129]}
\* ... and when the power-up timer fires
PuDraws == {[roll |-> FALSE, px |-> 0, kind |-> "Shield"]}
           \cup {[roll |-> TRUE, px |-> 50, kind |-> k] : k \in Kinds}

Rnds(ob, pu) ==
    {[size |-> o.size, ox |-> o.ox, fac |-> o.fac,
      roll |-> p.roll, px |-> p.px, kind |-> p.kind] :
        o \in (IF ob THEN ObDraws ELSE {[size |-> OB_MIN_SIZE, ox |-> 0, fac |-> 90]}),
        p \in (IF pu THEN PuDraws ELSE {[roll |-> FALSE, px |-> 0, kind |-> "Shield"]})}

\* ---------------------------------------------------------------- rounds in progress
\* States of a round some seconds after its start (20 s after program start):
\* obstacles and power-ups part-way down the screen, one power-up object
\* already collected and recycled (or back in play).
ObA(id) == Obstacle(id, Rect(Px(380), Px(520) - 100, Px(40), Px(40)), 160)
ObB(id) == Obstacle(id, Rect(Px(400), Px(530) - 100, Px(30), Px(30)), 150)
ObC(id) == Obstacle(id, Rect(Px(10), Px(100), Px(22), Px(22)), 140)
ObD(id) == Obstacle(id, Rect(Px(700), Px(605) - 50, Px(30), Px(30)), 170)
ObE(id) == Obstacle(id, Rect(Px(600), Px(605) - 20, Px(25), Px(25)), 180)
PuA(id, kind) == PowerUp(id, Rect(Px(370), Px(532) - 50, Px(PU_SIZE), Px(PU_SIZE)),
                         PU_FALL_SPEED, kind)
PuB(id, kind) == PowerUp(id, Rect(Px(410), Px(532) - 30, Px(PU_SIZE), Px(PU_SIZE)),
                         PU_FALL_SPEED, kind)
PuD(id, kind) == PowerUp(id, Rect(Px(100), Px(605) - 10, Px(PU_SIZE), Px(PU_SIZE)),
                         PU_FALL_SPEED, kind)

Pool(live, dead) == [live |-> live, dead |-> dead, made |-> Len(live) + Len(dead)]

RoundBase ==
    [mode |-> "Playing", player |-> [x |-> Px(360), vx |-> 0],
     obs |-> PoolNew, pus |-> Pool(<< >>, <<PuA(1, "Shield")>>),
     time_tick |-> 8945920, score |-> 30, best_score |-> 50,
     spawn_timer |-> Secs(1, 10), spawn_interval |-> SPAWN_MIN_INTERVAL,
     fall_speed |-> 499, shake |-> 0,
     shield |-> 0, slow_timer |-> 0, pu_spawn_timer |-> Secs(2, 1),
     played |-> 1441 * FIXED_DT]

\* one obstacle about to reach the player
RoundsOne ==
    {[RoundBase EXCEPT !.obs = Pool(<<ObA(1)>>, << >>), !.shield = sh] : sh \in {0, 2}}

\* two obstacles about to reach the player in the same tick, a point about to
\* be scored (tick 1488 of the round; RoundBase is at tick 1441)
RoundsTwo ==
    {[RoundBase EXCEPT !.obs = Pool(<<ObC(2), ObA(1), ObB(3)>>, <<ObC(4)>>),
                       !.time_tick = 429494752, !.played = 1488 * FIXED_DT,
                       !.shield = sh, !.best_score = b] : sh \in {0, 1}, b \in {10, 50}}

\* a power-up about to reach the player together with an obstacle
RoundsPickup ==
    {[RoundBase EXCEPT !.obs = Pool(live, <<ObC(3)>>),
                       !.pus = Pool(<<PuA(1, k)>>, << >>),
                       !.shield = sh] :
        k \in Kinds, sh \in {0, 3}, live \in {<<ObA(2), ObC(1)>>, <<ObC(2), ObC(1)>>}}

\* two power-ups about to reach the player in the same tick; in the second
\* round state a third one leaves the screen first, which reorders the pool
RoundsTwoPickups ==
    {[RoundBase EXCEPT !.obs = Pool(<<ObA(2), ObC(1)>>, <<ObC(3)>>),
                       !.pus = Pool(<<PuA(1, "Bomb"), PuB(2, "Shield")>>, << >>)],
     [RoundBase EXCEPT !.obs = Pool(<<ObC(1)>>, << >>),
                       !.pus = Pool(<<PuD(3, "Bomb"), PuA(1, "Slow"), PuB(2, "Shield")>>,
                                    << >>)]}

\* objects about to leave the screen, both spawn timers about to fire
RoundsSweep ==
    {[RoundBase EXCEPT !.obs = Pool(<<ObD(1), ObC(4), ObE(2)>>, <<ObC(3), ObC(5)>>),
                       !.pus = Pool(<<PuD(2, "Slow"), PuB(1, "Shield")>>, <<PuD(3, "Bomb")>>),
                       !.spawn_timer = SPAWN_MIN_INTERVAL - FIXED_DT,
                       !.pu_spawn_timer = PU_SPAWN_INTERVAL - FIXED_DT],
     [RoundBase EXCEPT !.obs = Pool(<<ObD(1), ObC(3), ObE(2)>>, << >>),
                       !.slow_timer = Secs(3, 1),
                       !.fall_speed = 249,
                       !.spawn_interval = 2 * SPAWN_MIN_INTERVAL,
                       !.spawn_timer = 2 * SPAWN_MIN_INTERVAL - FIXED_DT]}

\* the same round paused, lost, and left for the menu
RoundsStopped ==
    {[RoundBase EXCEPT !.mode = "Paused",
                       !.obs = Pool(<<ObC(2), ObA(1), ObB(3)>>, <<ObC(4)>>),
                       !.shield = 1, !.shake = Shk(3)],
     [RoundBase EXCEPT !.mode = "GameOver",
                       !.obs = Pool(<<ObA(1)>>, << >>),
                       !.obs.live[1].rect.y = Px(520) + 60,
                       !.shake = Shk(9)],
     [RoundBase EXCEPT !.mode = "Menu",
                       !.obs = Pool(<<ObA(1)>>, << >>),
                       !.shield = 2]}

\* a round whose last tick had a fatal collision and the pause key pressed:
\* lines 323-326 ran (shake 10.0, decayed once since), then line 330 left the
\* mode Paused; the obstacle is still live, a Bomb is about to reach the player
RoundsLostPaused ==
    {[RoundBase EXCEPT !.mode = "Paused",
                       !.obs = Pool(<<ObA(1)>>, << >>),
                       !.obs.live[1].rect.y = Px(520) + 60,
                       !.pus = Pool(<<PuA(1, "Bomb")>>, << >>),
                       !.shake = Shk(10) - 50]}

\* a round started 0.7 s after launch, 11.5 s after launch: a Slow power-up
\* spawned when the power-up timer first fired was collected six ticks ago
\* (tick 1289 of the round), spawn_interval has been fed back through
\* lines 255-257 six times with slow_mul = 0.5
RoundsEarlySlow ==
    {[RoundBase EXCEPT !.obs = Pool(<<ObC(1)>>, << >>),
                       !.pus = Pool(<< >>, <<PuA(1, "Slow")>>),
                       !.time_tick = 420548896, !.score = 26,
                       !.played = 1295 * FIXED_DT,
                       !.slow_timer = SLOW_DURATION - 6 * FIXED_DT,
                       !.fall_speed = 173,
                       !.spawn_interval = 10440,
                       !.spawn_timer = 8 * FIXED_DT,
                       !.pu_spawn_timer = 4 * 6000 + 4750]}

Rounds ==
    RoundsOne \cup RoundsTwo \cup RoundsPickup \cup RoundsTwoPickups
        \cup RoundsSweep \cup RoundsStopped \cup RoundsLostPaused

\* ---------------------------------------------------------------- main
\* lines 452-462: after construction, or with a round in progress
Init ==
    /\ \/ /\ \E best \in {0, 50} : game = GameNew(best, 800)
          /\ now = Secs(1, 1)
       \/ /\ game \in Rounds
          /\ now = Secs(20, 1)
       \/ /\ game \in RoundsEarlySlow
          /\ now = Secs(23, 2)
    /\ disk = game.best_score
    /\ acc = 0
    /\ pc = "frame"
    /\ keys = {}
    /\ down = {}
    /\ screen = [w |-> 800, h |-> 600]
    /\ ev = EvNone
    /\ frame = [mode0 |-> game.mode, ticks |-> 0, run |-> 0, fed |-> 0]
    /\ frames = 0

\* faulty variant: the tick empties the accumulator
Drain_DropsRemainder(a) == 0

\* line 469
Drain(a) == a - FIXED_DT

\* lines 465-466: a new frame: input and window events are taken, the frame
\* time is added to the accumulator
BeginFrame ==
    /\ pc = "frame"
    /\ frames < MaxFrames
    /\ \E ft \in FrameTimes :
          /\ acc' = acc + ft
          /\ now' = now + ft
          /\ frame' = [mode0 |-> game.mode, ticks |-> 0,
                       run |-> frame.run, fed |-> frame.fed + ft]
    /\ keys' \in SUBSET ActionKeys
    /\ down' \in SUBSET DirKeys
    /\ screen' \in Screens
    /\ pc' = "loop"
    /\ frames' = frames + 1
    /\ ev' = EvNone
    /\ UNCHANGED <<game, disk>>

\* lines 467-470: one pass of the while loop
Tick ==
    /\ pc = "loop"
    /\ acc >= FIXED_DT
    /\ \E rnd \in Rnds(game.mode = "Playing" /\ ObDue(game, FIXED_DT, now),
                       game.mode = "Playing" /\ PuDue(game, FIXED_DT)) :
          LET r == update_game(game, FIXED_DT, keys, down, screen, now, rnd)
          IN  /\ game' = r.game
              /\ ev' = r.ev
              /\ disk' = IF Len(r.ev.saves) > 0 THEN r.ev.saves[Len(r.ev.saves)] ELSE disk
    /\ acc' = Drain(acc)
    /\ frame' = [frame EXCEPT !.ticks = @ + 1, !.run = @ + 1]
    /\ UNCHANGED <<pc, keys, down, screen, now, frames>>

\* lines 471-472: draw_game, next_frame
EndFrame ==
    /\ pc = "loop"
    /\ acc < FIXED_DT
    /\ pc' = "frame"
    /\ UNCHANGED <<game, acc, keys, down, screen, now, disk, ev, frame, frames>>

Next == BeginFrame \/ Tick \/ EndFrame

Spec == Init /\ [][Next]_vars

\* ---------------------------------------------------------------- frame loop
\* The loop of main on its own: frames of many lengths, no key pressed (the
\* game stays in the menu).  The while loop is sequential code: a pass or the
\* exit that can be taken is taken.
MaxLoopFrames == 4

\* frame times: none, fractions of a tick, one, two, and 3.4 ticks
LoopFrameTimes == {0, 20, 30, FIXED_DT, 2 * FIXED_DT, 170}

LoopFrame ==
    /\ pc = "frame"
    /\ frames < MaxLoopFrames
    /\ \E ft \in LoopFrameTimes :
          /\ acc' = acc + ft
          /\ now' = now + ft
          /\ frame' = [mode0 |-> game.mode, ticks |-> 0,
                       run |-> frame.run, fed |-> frame.fed + ft]
    /\ pc' = "loop"
    /\ frames' = frames + 1
    /\ ev' = EvNone
    /\ UNCHANGED <<game, disk, keys, down, screen>>

InitLoop ==
    /\ game = GameNew(0, 800)
    /\ now = Secs(1, 1)
    /\ disk = 0
    /\ acc = 0
    /\ pc = "frame"
    /\ keys = {}
    /\ down = {}
    /\ screen = [w |-> 800, h |-> 600]
    /\ ev = EvNone
    /\ frame = [mode0 |-> "Menu", ticks |-> 0, run |-> 0, fed |-> 0]
    /\ frames = 0

NextLoop == LoopFrame \/ Tick \/ EndFrame

SpecLoop == InitLoop /\ [][NextLoop]_vars /\ WF_vars(Tick) /\ WF_vars(EndFrame)

\* ---------------------------------------------------------------- update_and_sweep
\* The two update_and_sweep calls of lines 286-287 on their own: pools of up
\* to MaxSweepLen live objects in every order, each object far from the lower
\* edge, about to pass it, or about to land exactly on bound + 5.
MaxSweepLen == 3

SweepShapes == {"stay", "leave", "edge"}
SweepDts == {FIXED_DT, 2 * FIXED_DT}

SweepOb(shape, id) ==
    CASE shape = "stay" -> ObC(id)
      [] shape = "leave" -> ObD(id)
      [] shape = "edge" -> Obstacle(id, Rect(Px(300), Px(605) - 150, Px(30), Px(30)), 150)

SweepPu(shape, id) ==
    CASE shape = "stay" -> PuA(id, "Shield")
      [] shape = "leave" -> PuD(id, "Slow")
      [] shape = "edge" -> PowerUp(id, Rect(Px(300), Px(605) - PU_FALL_SPEED,
                                           Px(PU_SIZE), Px(PU_SIZE)), PU_FALL_SPEED, "Bomb")

InitSweep ==
    /\ \E n \in 0..MaxSweepLen, m \in 0..MaxSweepLen, d \in 0..1 :
          \E f \in [1..n -> SweepShapes], h \in [1..m -> SweepShapes] :
             game = [RoundBase EXCEPT
                        !.obs = Pool([i \in 1..n |-> SweepOb(f[i], i)],
                                     [i \in 1..d |-> ObC(n + 1)]),
                        !.pus = Pool([i \in 1..m |-> SweepPu(h[i], i)],
                                     [i \in 1..d |-> PuA(m + 1, "Shield")])]
    /\ now = Secs(20, 1)
    /\ disk = game.best_score
    /\ acc = 0
    /\ pc = "sweep"
    /\ keys = {}
    /\ down = {}
    /\ screen = [w |-> 800, h |-> 600]
    /\ ev = EvNone
    /\ frame = [mode0 |-> "Playing", ticks |-> 0, run |-> 0, fed |-> 0]
    /\ frames = 0

SweepTick ==
    /\ pc = "sweep"
    /\ \E dt \in SweepDts :
          /\ game' = [game EXCEPT !.obs = ObsUpdateAndSweep(game.obs, Px(screen.h), dt),
                                  !.pus = PusUpdateAndSweep(game.pus, Px(screen.h), dt)]
          /\ ev' = [EvNone EXCEPT !.dt = dt, !.pre = game]
    /\ pc' = "swept"
    /\ UNCHANGED <<acc, keys, down, screen, now, disk, frame, frames>>

NextSweep == SweepTick

SpecSweep == InitSweep /\ [][NextSweep]_vars

\* ---------------------------------------------------------------- score accumulator
\* The accumulator of lines 290-294 on its own: from reset_round, Playing
\* ticks of any of these sizes (update_game's dt parameter).
ScoreDts == {FIXED_DT, Secs(1, 10), Secs(2, 10), Secs(5, 10), Secs(1, 1)}

InitScore ==
    /\ game = reset_round(GameNew(0, 800), 800)
    /\ now = Secs(1, 1)
    /\ disk = 0
    /\ acc = 0
    /\ pc = "loop"
    /\ keys = {}
    /\ down = {}
    /\ screen = [w |-> 800, h |-> 600]
    /\ ev = EvNone
    /\ frame = [mode0 |-> "Playing", ticks |-> 0, run |-> 0, fed |-> 0]
    /\ frames = 0

ScoreTick ==
    /\ \E dt \in ScoreDts :
          /\ game.played + dt <= MaxScoreTicks * FIXED_DT
          /\ LET sc == ScoreStep(game.time_tick, game.score, dt)
             IN  game' = [game EXCEPT !.time_tick = sc.time_tick,
                                      !.score = sc.score,
                                      !.played = @ + dt]
    /\ UNCHANGED <<acc, pc, keys, down, screen, now, disk, ev, frame, frames>>

NextScore == ScoreTick

SpecScore == InitScore /\ [][NextScore]_vars

\* ---------------------------------------------------------------- properties
\* A tick has just run (ev is cleared when the next frame begins), it started
\* in Playing
PlayingTick == ev.ran /\ ev.pre.mode = "Playing"

Ids(seq) == {seq[i].id : i \in 1..Len(seq)}
Elems(seq) == {seq[i] : i \in 1..Len(seq)}

\* C1: a Playing tick whose collision step finds an overlapping obstacle with
\* shield 0 ends with mode GameOver, best_score = max(best_score before, score)
\* and exactly one save_best call, with that value, whatever keys are pressed.
C1_FatalCollisionEndsInGameOver ==
    (PlayingTick /\ ev.hits >= 1 /\ ev.c_shield = 0) =>
        /\ game.mode = "GameOver"
        /\ game.best_score = Max(ev.pre.best_score, game.score)
        /\ ev.saves = <<game.best_score>>

\* The keys that have a transition defined in a mode (section 4.7)
KeysOf(m) ==
    CASE m = "Menu" -> {"Space"}
      [] m = "Playing" -> {"P"}
      [] m = "Paused" -> {"P", "R", "Escape"}
      [] m = "GameOver" -> {"R", "Escape"}

\* the round state is the one reset_round leaves (shake aside, which decays
\* at the end of the same tick)
IsReset(g) == [g EXCEPT !.shake = 0] = [reset_round(g, screen.w) EXCEPT !.shake = 0]

\* C2: over a tick the mode is unchanged or follows one of the transitions
\* Menu->Playing (start, reset), Playing->Paused (pause), Paused->Playing
\* (pause, or restart with reset), Paused/GameOver->Menu (menu),
\* GameOver->Playing (restart, reset), Playing->GameOver (collision at shield
\* 0); and the tick's result is the one the same tick has with only the keys
\* that have a transition in its mode: the other presses change nothing.
C2_ModeTransitions ==
    ev.ran =>
        LET m == ev.pre.mode
            m2 == game.mode
        IN  /\ \/ m2 = m
               \/ m = "Menu" /\ m2 = "Playing" /\ "Space" \in keys /\ IsReset(game)
               \/ m = "Playing" /\ m2 = "Paused" /\ "P" \in keys
               \/ m = "Paused" /\ m2 = "Playing" /\ "P" \in keys
               \/ m = "Paused" /\ m2 = "Playing" /\ "R" \in keys /\ IsReset(game)
               \/ m \in {"Paused", "GameOver"} /\ m2 = "Menu" /\ "Escape" \in keys
               \/ m = "GameOver" /\ m2 = "Playing" /\ "R" \in keys /\ IsReset(game)
               \/ m = "Playing" /\ m2 = "GameOver" /\ ev.hits >= 1 /\ ev.c_shield = 0
            /\ \E rnd \in Rnds(TRUE, TRUE) :
                  game = update_game(ev.pre, FIXED_DT, keys \cap KeysOf(m),
                                     down, screen, now, rnd).game

\* C2 witness: Paused, pause pressed together with a key that has no
\* transition there; the round resumes
C2_Witness ==
    ev.ran /\ ev.pre.mode = "Paused" /\ keys = {"P", "Space"} /\ game.mode = "Playing"

\* C3: one pause press is one transition: after a rendered frame that ran at
\* least one tick with the pause key pressed, a frame begun in Playing ends
\* Paused and a frame begun in Paused ends Playing.
C3_PausePressTogglesOnce ==
    (pc = "frame" /\ frame.ticks >= 1 /\ keys = {"P"}) =>
        /\ frame.mode0 = "Playing" => game.mode = "Paused"
        /\ frame.mode0 = "Paused" => game.mode = "Playing"

\* C4: with two or more obstacles overlapping the hitbox at the collision
\* step, only the first in pool order is resolved.  Shield 0: the collision
\* step sets GameOver, best_score is updated and saved exactly once and no
\* obstacle is recycled.  Shield > 0: that one obstacle is recycled, shield
\* drops by 1, the others stay live and still overlap.
C4_CollisionTieBreak ==
    (PlayingTick /\ ev.hits >= 2) =>
        LET L == ev.c_obs.live
            H == HitBox(game.player.x)
            first == CHOOSE i \in 1..Len(L) :
                        /\ rects_overlap(L[i].rect, H)
                        /\ \A k \in 1..(i - 1) : ~rects_overlap(L[k].rect, H)
        IN  IF ev.c_shield = 0
            THEN /\ ev.x_mode = "GameOver"
                 /\ Len(ev.saves) = 1
                 /\ ev.saves[1] = Max(ev.pre.best_score, game.score)
                 /\ game.best_score = ev.saves[1]
                 /\ game.obs = ev.c_obs
                 /\ game.shield = 0
            ELSE /\ Elems(game.obs.live) = Elems(L) \ {L[first]}
                 /\ Len(game.obs.live) = Len(L) - 1
                 /\ game.obs.dead = Append(ev.c_obs.dead, L[first])
                 /\ game.shield = ev.c_shield - 1
                 /\ CountOverlap(game.obs.live, H, 1) = ev.hits - 1
                 /\ ev.saves = << >>
                 /\ ev.x_mode = "Playing"

\* C4 witness: two overlapping obstacles absorbed by a shield
C4_Witness == PlayingTick /\ ev.hits >= 2 /\ ev.c_shield > 0 /\ game.shield = ev.c_shield - 1

\* C5: an overlap at the collision step with shield k > 0 leaves shield k-1,
\* the mode not GameOver, score and best_score as they were, no save_best
\* call, and the colliding obstacle moved from live to dead.
C5_ShieldAbsorbs ==
    (PlayingTick /\ ev.hits >= 1 /\ ev.c_shield > 0) =>
        /\ game.shield = ev.c_shield - 1
        /\ game.mode # "GameOver"
        /\ game.score = ev.c_score
        /\ game.best_score = ev.pre.best_score
        /\ ev.saves = << >>
        /\ disk = ev.pre.best_score
        /\ Len(game.obs.live) = Len(ev.c_obs.live) - 1
        /\ Len(game.obs.dead) = Len(ev.c_obs.dead) + 1
        /\ ev.hit_id \in Ids(ev.c_obs.live)
        /\ ev.hit_id \notin Ids(game.obs.live)
        /\ ev.hit_id \in Ids(game.obs.dead)

\* C5 witness: the scenario shield = 2, score = 30
C5_Witness ==
    PlayingTick /\ ev.hits = 1 /\ ev.c_shield = 2 /\ game.shield = 1 /\ game.score = 30

\* C6: the shield charge count stays within 0..3.
C6_ShieldRange == game.shield \in 0..3

\* C6 witness: a Shield picked up with three charges
C6_Witness == PlayingTick /\ ev.picked = "Shield" /\ ev.pre.shield = 3 /\ game.shield = 3

\* C7: after every tick, in every mode, 0 <= player.x <= screen_width - PLAYER_W
\* for the screen width current at that tick.
C7_PlayerInBounds ==
    ev.ran => (0 <= game.player.x /\ game.player.x <= Px(screen.w) - Px(PLAYER_W))

\* C8: after Playing ticks that sum to N seconds from reset_round,
\* score = floor(N / 0.4) and 0 <= time_tick < 0.4.
C8_ScoreIsFloor ==
    /\ game.score = game.played \div SCORE_PERIOD
    /\ 0 <= game.time_tick
    /\ game.time_tick < F32OfSecs(SCORE_PERIOD)

\* C9: in both pools live.len() + dead.len() is the number of objects
\* constructed since the pool was created or reset, each object is in exactly
\* one of live and dead, and a tick that spawns constructs an object only when
\* dead was empty and otherwise takes the last recycled one.
PoolSound(pool) ==
    /\ Len(pool.live) + Len(pool.dead) = pool.made
    /\ Ids(pool.live) \cup Ids(pool.dead) = 1..pool.made
    /\ Cardinality(Ids(pool.live)) = Len(pool.live)
    /\ Cardinality(Ids(pool.dead)) = Len(pool.dead)
    /\ Ids(pool.live) \cap Ids(pool.dead) = {}

SpawnReuses(before, after, spawned) ==
    IF spawned
    THEN IF Len(before.dead) = 0
         THEN after.made = before.made + 1
         ELSE /\ after.made = before.made
              /\ before.dead[Len(before.dead)].id \in Ids(after.live)
    ELSE after.made = before.made

C9_PoolInvariant ==
    /\ PoolSound(game.obs)
    /\ PoolSound(game.pus)
    /\ PlayingTick =>
          /\ SpawnReuses(ev.pre.obs, game.obs, ev.ob_spawned)
          /\ SpawnReuses(ev.pre.pus, game.pus, ev.pu_spawned)

\* C9 witness: a tick that sweeps an obstacle and spawns one from the
\* recycled set
C9_Witness ==
    /\ PlayingTick /\ ev.ob_spawned /\ Len(ev.pre.obs.dead) > 0
    /\ Len(game.obs.dead) >= Len(ev.pre.obs.dead)

\* C10: a Bomb picked up with N obstacles live and D recycled leaves, right
\* after the pickup, no obstacle live and D + N recycled.
C10_BombClearsObstacles ==
    (PlayingTick /\ ev.picked = "Bomb") =>
        /\ ev.b_live = 0
        /\ ev.b_dead = ev.p_dead + ev.p_live
        /\ Ids(ev.c_obs.dead) = Ids(ev.pre.obs.live) \cup Ids(ev.pre.obs.dead)
        /\ game.obs.live = << >>
        /\ Len(game.obs.dead) = ev.p_dead + ev.p_live

\* C10 witness: a Bomb picked up with obstacles live
C10_Witness == PlayingTick /\ ev.picked = "Bomb" /\ ev.p_live >= 2 /\ ev.b_live = 0

\* the player rectangle of line 297
PBox(x) == Rect(x, Px(PLAYER_Y), Px(PLAYER_W), Px(PLAYER_H))

\* C11: pick_at collects at most one power-up per tick.  With k >= 1 live
\* power-ups overlapping the player rectangle it returns the kind of the first
\* one in pool order, moves exactly that one to the recycled set, exactly one
\* effect (that kind's) is applied, and the other k-1 stay live, unchanged and
\* overlapping; with none overlapping it returns None and nothing changes.
C11_PickAtMostOne ==
    PlayingTick =>
        LET L == ev.q_pus.live
            P == PBox(game.player.x)
            k == CountOverlap(L, P, 1)
            slow1 == SlowDecay(ev.pre.slow_timer, FIXED_DT)
        IN  IF k = 0
            THEN /\ ev.picked = "None"
                 /\ game.pus = ev.q_pus
                 /\ ev.c_shield = ev.pre.shield
                 /\ game.slow_timer = slow1
                 /\ ev.c_obs = ev.p_obs
                 /\ ev.b_shake = ev.p_shake
            ELSE LET first == CHOOSE i \in 1..Len(L) :
                                 /\ rects_overlap(L[i].rect, P)
                                 /\ \A j \in 1..(i - 1) : ~rects_overlap(L[j].rect, P)
                 IN  /\ ev.picked = L[first].kind
                     /\ Elems(game.pus.live) = Elems(L) \ {L[first]}
                     /\ Len(game.pus.live) = Len(L) - 1
                     /\ game.pus.dead = Append(ev.q_pus.dead, L[first])
                     /\ CountOverlap(game.pus.live, P, 1) = k - 1
                     /\ ev.c_shield = IF ev.picked = "Shield"
                                      THEN Min(ev.pre.shield + 1, 3) ELSE ev.pre.shield
                     /\ game.slow_timer = IF ev.picked = "Slow" THEN SLOW_DURATION ELSE slow1
                     /\ ev.picked # "Bomb" => (ev.c_obs = ev.p_obs /\ ev.b_shake = ev.p_shake)
                     /\ ev.picked = "Bomb" => ev.c_obs.live = << >>

\* C11 witness: two power-ups of different kinds overlap the player; the
\* first is collected, the other is still live and overlapping
C11_Witness ==
    /\ PlayingTick
    /\ CountOverlap(ev.q_pus.live, PBox(game.player.x), 1) = 2
    /\ ev.picked = "Bomb"
    /\ CountOverlap(game.pus.live, PBox(game.player.x), 1) = 1
    /\ \E i \in 1..Len(game.pus.live) : game.pus.live[i].kind = "Shield"

\* a start press (Menu) or a restart press (Paused, GameOver)
ResetPressed(m, ks) ==
    \/ m = "Menu" /\ "Space" \in ks
    \/ m \in {"Paused", "GameOver"} /\ "R" \in ks

\* C12: a tick that enters Playing by a start press from Menu or a restart
\* press from Paused or GameOver leaves score 0, accumulator 0, both spawn
\* timers 0, spawn_interval SPAWN_BASE_INTERVAL, fall_speed OB_START_SPEED,
\* shield 0, slow_timer 0, shake 0, player.vx 0, player.x centred for the
\* current screen width, both pools without live objects, and best_score as
\* it was.
C12_ResetOnEntry ==
    (ev.ran /\ ResetPressed(ev.pre.mode, keys) /\ game.mode = "Playing") =>
        /\ game.score = 0
        /\ game.time_tick = 0
        /\ game.spawn_timer = 0
        /\ game.pu_spawn_timer = 0
        /\ game.spawn_interval = SPAWN_BASE_INTERVAL
        /\ game.fall_speed = OB_START_SPEED
        /\ game.shield = 0
        /\ game.slow_timer = 0
        /\ game.shake = 0
        /\ game.player.vx = 0
        /\ 2 * game.player.x = Px(screen.w) - Px(PLAYER_W)
        /\ game.obs.live = << >>
        /\ game.pus.live = << >>
        /\ game.best_score = ev.pre.best_score

\* C12 witness: a paused round with a shield charge, obstacles live and the
\* screen still shaking is restarted in a window that was made narrower
C12_Witness ==
    /\ ev.ran /\ ev.pre.mode = "Paused" /\ "R" \in keys /\ game.mode = "Playing"
    /\ ev.pre.shield = 1 /\ ev.pre.shake > 0 /\ Len(ev.pre.obs.live) > 0
    /\ ev.pre.score = 30 /\ game.score = 0
    /\ screen.w = 400 /\ game.player.x = Px(160)

C14_BestScoreMonotone ==
    /\ game.mode = "GameOver" => game.best_score >= game.score
    /\ ev.ran =>
          /\ game.best_score >= ev.pre.best_score
          /\ game.best_score # ev.pre.best_score =>
                /\ PlayingTick /\ ev.hits >= 1 /\ ev.c_shield = 0
                /\ ev.x_mode = "GameOver"
                /\ game.best_score = Max(ev.pre.best_score, game.score)
          /\ ~ResetPressed(ev.pre.mode, keys) => game.score >= ev.pre.score

\* C14 witness: a round lost with a score above the best score, in a tick
\* that also scored a point
C14_Witness ==
    /\ PlayingTick /\ game.mode = "GameOver"
    /\ ev.pre.best_score = 10 /\ ev.pre.score = 30
    /\ game.score = 31 /\ game.best_score = 31

\* the slow multiplier a Playing tick computes (lines 248-251), in hundredths
TickSlowMul == SlowMul(SlowDecay(ev.pre.slow_timer, FIXED_DT))

\* C15: at every Playing tick fall_speed =
\* (OB_START_SPEED + elapsed_round_time * OB_ACC_PER_SEC) * slow_multiplier,
\* elapsed_round_time being the Playing time since the round's reset (this
\* tick included); so the first tick of a round without Slow has
\* OB_START_SPEED plus one tick's increment.
C15_FallSpeedFromRoundTime ==
    PlayingTick =>
        game.fall_speed =
            (difficulty_curve(game.played, OB_START_SPEED, SPAWN_BASE_INTERVAL).fall
                * TickSlowMul) \div 100

\* the spawn interval of section 4.5 for an elapsed time, from the constant
\* base interval
SpecInterval(elapsed, slow_mul) ==
    Max(SPAWN_MIN_INTERVAL,
        ((SPAWN_BASE_INTERVAL - (elapsed * 2) \div 100) * 100) \div slow_mul)

\* C16: at every Playing tick spawn_interval =
\* max(SPAWN_MIN_INTERVAL, (SPAWN_BASE_INTERVAL - elapsed*0.02) / slow_multiplier)
\* (elapsed read as the round's Playing time or as the time since launch);
\* in every state SPAWN_MIN_INTERVAL <= spawn_interval <=
\* SPAWN_BASE_INTERVAL / SLOW_FACTOR = 1.8 s, and the time since the last
\* obstacle spawn never exceeds 1.8 s.
C16_SpawnIntervalBounds ==
    /\ SPAWN_MIN_INTERVAL <= game.spawn_interval
    /\ game.spawn_interval <= (SPAWN_BASE_INTERVAL * 100) \div SLOW_FACTOR
    /\ game.spawn_timer <= (SPAWN_BASE_INTERVAL * 100) \div SLOW_FACTOR
    /\ PlayingTick =>
          \/ game.spawn_interval = SpecInterval(game.played, TickSlowMul)
          \/ game.spawn_interval = SpecInterval(now, TickSlowMul)

\* C17: a Bomb pickup sets shake to max(shake before the pickup, 6.0): right
\* after the pickup shake is at least 6.0 and not lower than right before it.
C17_BombShakeIsMax ==
    (PlayingTick /\ ev.picked = "Bomb") =>
        /\ ev.b_shake >= Shk(6)
        /\ ev.b_shake >= ev.p_shake
        /\ ev.b_shake = Max(ev.p_shake, Shk(6))

\* the pool `after` is the pool `before` swept with dt at bound: every object
\* live before is advanced once by vy*dt; those with y <= bound + 5 are the
\* live objects, the others have been appended to the recycled ones
Swept(before, after, bound, dt) ==
    LET L == before.live
        D == Len(before.dead)
        adv(o) == [o EXCEPT !.rect.y = @ + Advance(o.vy, dt)]
        stay == {adv(L[i]) : i \in {j \in 1..Len(L) : adv(L[j]).rect.y <= bound + Px(5)}}
        gone == {adv(L[i]) : i \in {j \in 1..Len(L) : adv(L[j]).rect.y > bound + Px(5)}}
    IN  /\ Elems(after.live) = stay
        /\ Len(after.live) = Cardinality(stay)
        /\ Len(after.dead) = D + Cardinality(gone)
        /\ SubSeq(after.dead, 1, D) = before.dead
        /\ Elems(SubSeq(after.dead, D + 1, Len(after.dead))) = gone

\* C18: update_and_sweep(bound, dt) advances every object live at the call
\* exactly once by vy*dt; on return live holds exactly those whose advanced y
\* is <= bound + 5 and the recycled set has gained exactly the others, for
\* any number and order of live objects.
C18_SweepExact ==
    pc = "swept" =>
        /\ Swept(ev.pre.obs, game.obs, Px(screen.h), ev.dt)
        /\ Swept(ev.pre.pus, game.pus, Px(screen.h), ev.dt)

\* C18 witness: of three live obstacles the second and the last are swept
\* (two consecutive removals, the second of the last element), the first
\* lands exactly on bound + 5 and stays
C18_Witness ==
    /\ pc = "swept" /\ ev.dt = FIXED_DT
    /\ Len(ev.pre.obs.live) = 3
    /\ Len(game.obs.live) = 1 /\ game.obs.live[1].id = 1
    /\ game.obs.live[1].rect.y = Px(605)
    /\ Len(game.obs.dead) = Len(ev.pre.obs.dead) + 2
    /\ Len(game.pus.dead) = Len(ev.pre.pus.dead) + 3

\* C19: a tick in Menu, Paused or GameOver with no key pressed that has a
\* transition in that mode leaves every field of the game (mode, player,
\* score, best_score, accumulator, timers, spawn_interval, fall_speed, shield,
\* slow_timer, both pools) as it was, whatever direction keys are held, except
\* shake, which drops by 60*dt and not below 0; and a paused round resumed by
\* the pause key differs from the paused state only in mode and shake.
C19_StoppedTickChangesNothing ==
    (ev.ran /\ ev.pre.mode # "Playing") =>
        LET pressed == keys \cap KeysOf(ev.pre.mode)
            decayed == Max(ev.pre.shake - (60 * ev.dt * 100) \div 6000, 0)
        IN  /\ pressed = {} =>
                  /\ [game EXCEPT !.shake = 0] = [ev.pre EXCEPT !.shake = 0]
                  /\ game.shake = decayed
            /\ (ev.pre.mode = "Paused" /\ pressed = {"P"}) =>
                  /\ game.mode = "Playing"
                  /\ [game EXCEPT !.shake = 0, !.mode = "Paused"] = [ev.pre EXCEPT !.shake = 0]
                  /\ game.shake = decayed

\* C19 witness: a paused tick with a direction key held, a key without a
\* transition pressed and the window made narrower; the shake has decayed
C19_Witness ==
    /\ ev.ran /\ ev.pre.mode = "Paused" /\ game.mode = "Paused"
    /\ keys = {"Space"} /\ down = {"Left"} /\ screen.w = 400
    /\ ev.pre.shake = Shk(3) /\ game.shake = Shk(3) - 50
    /\ game.player = ev.pre.player /\ game.shield = 1

\* C20: the pickup is resolved before the collision test.  A tick that picks
\* up a Bomb has no obstacle at the collision test: shield, best_score and
\* the save file are untouched and the round is not lost, even if obstacles
\* overlapped the hitbox before the pickup.  A Shield picked up in a tick
\* counts for a collision of that tick: the charge absorbs it.
C20_PickupBeforeCollision ==
    /\ (PlayingTick /\ ev.picked = "Bomb") =>
          /\ ev.hits = 0
          /\ game.shield = ev.pre.shield
          /\ ev.x_mode = "Playing" /\ game.mode # "GameOver"
          /\ game.best_score = ev.pre.best_score
          /\ ev.saves = << >> /\ disk = ev.pre.best_score
    /\ (PlayingTick /\ ev.picked = "Shield" /\ ev.hits >= 1) =>
          /\ ev.c_shield = Min(ev.pre.shield + 1, 3)
          /\ game.shield = ev.c_shield - 1
          /\ ev.x_mode = "Playing" /\ game.mode # "GameOver"
          /\ game.best_score = ev.pre.best_score
          /\ ev.saves = << >> /\ disk = ev.pre.best_score

\* C20 witness: a Bomb picked up at shield 0 while an obstacle overlapped the
\* hitbox; the round goes on
C20_Witness ==
    /\ PlayingTick /\ ev.picked = "Bomb" /\ ev.pre.shield = 0
    /\ CountOverlap(ev.p_obs.live, HitBox(game.player.x), 1) >= 1
    /\ ev.hits = 0 /\ game.mode = "Playing" /\ game.shield = 0

====
